---- MODULE Spec2Model ----
(***************************************************************************)
(* moon-dst (src/src/main.rs): the `apply` command.  cmd_apply fans the    *)
(* discovered repositories out over a rayon pool; every closure runs       *)
(* process_repo (moon update, the moon add loop, handle_justfile), pushes  *)
(* its RepoResult into the mutex-protected accumulator and, under          *)
(* --fail-fast, raises the should_stop flag after a failure.               *)
(*                                                                         *)
(* A path is modelled by a natural number (PathBuf ordering = <), a string *)
(* by the sequence of its characters, the external `moon` tool and the     *)
(* file system by nondeterministic outcomes plus a record of what was      *)
(* asked of them (moon_calls, fs_writes, justfile).                        *)
(***************************************************************************)
EXTENDS Integers, Sequences, FiniteSets, TLC

\* ------------------------------------------------------------------ bounds
MaxRepos == 2     \* repositories in a pool run
PoolRepeat == 1   \* --repeat in a pool run
MaxRepeat == 2    \* --repeat in a single-worker run
MaxJobs == 2      \* --jobs
MaxRuns == 2      \* consecutive runs of `just` on the same tree

\* ------------------------------------------------------------ small helpers
Range(s) == {s[k] : k \in 1..Len(s)}

Perms(S) == {f \in [1..Cardinality(S) -> S] : \A a, b \in 1..Cardinality(S) : f[a] = f[b] => a = b}

NoDup(s) == \A a, b \in 1..Len(s) : s[a] = s[b] => a = b

\* str::contains: p occurs in s as a contiguous substring ("" is in every s)
Contains(s, p) == \E k \in 0..(Len(s) - Len(p)) : SubSeq(s, k + 1, k + Len(p)) = p

\* ------------------------------------------------------------ input domains
XCore == <<"x", "/", "c">>
YUtil == <<"y", "/", "u">>
XUtil == <<"x", "/", "u">>

DepNames == {XCore, YUtil, XUtil}

\* the -p/--package lists tried: none, "c", "z"+"y/", and the empty string
PackageLists == {<<>>, <<<<"c">>>>, <<<<"z">>, <<"y", "/">>>>, <<<<>>>>}

JustfileModes == {"Skip", "Create", "Merge"}

\* Repositories as discover_repos hands them over (each manifest's deps are
\* sorted and unique, as parse_moon_mod leaves them).
\* For the pool: root k with one dependency; root 2 has it in two manifests.
PoolCatalog(k) ==
    CASE k = 1 -> [root |-> 1, moon_mods |-> <<[path |-> 11, deps |-> <<XCore>>]>>]
      [] k = 2 -> [root |-> 2, moon_mods |-> <<[path |-> 21, deps |-> <<YUtil>>],
                                               [path |-> 22, deps |-> <<YUtil>>]>>]
      [] OTHER -> [root |-> k, moon_mods |-> <<[path |-> 10 * k + 1, deps |-> <<XUtil>>]>>]

\* For a single worker: two manifests sharing a dependency, one manifest with
\* three dependencies, one manifest without any.
WorkerCatalog ==
    { [root |-> 1, moon_mods |-> <<[path |-> 11, deps |-> <<XCore>>],
                                   [path |-> 12, deps |-> <<XCore, YUtil>>]>>],
      [root |-> 1, moon_mods |-> <<[path |-> 11, deps |-> <<XCore, XUtil, YUtil>>]>>],
      [root |-> 1, moon_mods |-> <<[path |-> 11, deps |-> <<>>]>>] }

\* ------------------------------------------------------- paths and names
\* a path is the sequence of its normal components below "/", a component
\* the sequence of its characters
GitName == <<".", "g", "i", "t">>
ManifestName == <<"m", "o", "o", "n", ".", "m", "o", "d", ".", "j", "s", "o", "n">>
HiddenName == <<".", "h">>
TargetName == <<"t", "a", "r", "g", "e", "t">>

W == <<<<"w">>>>
WA == <<<<"w">>, <<"a">>>>
WAB == <<<<"w">>, <<"a">>, <<"b">>>>
WH == <<<<"w">>, HiddenName>>
WT == <<<<"w">>, TargetName>>
Q == <<<<"q">>>>

\* DEFAULT_IGNORES
DEFAULT_IGNORES ==
    <<<<"t", "a", "r", "g", "e", "t">>, <<"n", "o", "d", "e", "_", "m", "o", "d", "u", "l", "e", "s">>, <<"d", "i", "s", "t">>,
      <<"b", "u", "i", "l", "d">>, <<"v", "e", "n", "d", "o", "r">>, <<"s", "k", "i", "l", "l", "s">>>>

\* byte value of the characters that decide an ordering here
Ascii(c) ==
    CASE c = "." -> 46
      [] c = "/" -> 47
      [] c = "a" -> 97
      [] c = "b" -> 98
      [] c = "c" -> 99
      [] c = "m" -> 109
      [] c = "q" -> 113
      [] c = "t" -> 116
      [] c = "u" -> 117
      [] c = "w" -> 119
      [] c = "x" -> 120
      [] c = "y" -> 121
      [] OTHER -> 105

\* str / OsStr ordering: bytewise lexicographic, a proper prefix first
RECURSIVE StrLess(_, _)
StrLess(s, t) ==
    IF t = <<>> THEN FALSE
    ELSE IF s = <<>> THEN TRUE
    ELSE IF Ascii(s[1]) # Ascii(t[1]) THEN Ascii(s[1]) < Ascii(t[1])
    ELSE StrLess(Tail(s), Tail(t))

\* Path ordering: component by component
RECURSIVE PathLess(_, _)
PathLess(p, q) ==
    IF q = <<>> THEN FALSE
    ELSE IF p = <<>> THEN TRUE
    ELSE IF p[1] # q[1] THEN StrLess(p[1], q[1])
    ELSE PathLess(Tail(p), Tail(q))

Parent(p) == SubSeq(p, 1, Len(p) - 1)

\* ------------------------------------------------------------------- state
VARIABLES
    repos,            \* Vec<RepoInfo> returned by discover_repos (sorted by root)
    skip_update, repeat, packages, fail_fast, write_justfile, justfile_mode,
    dry_run, jobs,    \* the parsed CLI options of `apply`
    should_stop,      \* AtomicBool
    results,          \* Mutex<Vec<RepoResult>>
    pc,               \* pc[i]: where the closure of repos[i] stands
    result,           \* result[i]: the RepoResult local to process_repo
    all_deps,         \* all_deps[i]: the Vec collected from the HashSet
    round, idx,       \* the two loop counters of the add loop
    moon_calls,       \* moon_calls[i]: invocations of moon with cwd repos[i].root
    justfile,         \* justfile[i]: state of repos[i].root/justfile on disk
    fs_writes,        \* fs_writes[i]: number of std::fs::write calls on it
    mainpc,           \* position of the command / main
    all_success,      \* the value the command returns
    exit_code,
    just_i,           \* cmd_just: position of `for repo in &repos`
    success_count, skip_count,
    just_errs,        \* cmd_just: lines written by the Err arm
    summaries,        \* the Summary lines of the `just` runs so far
    command,          \* cli.command: "scan", "apply" or "just"
    root,             \* common.root
    common_ignores,   \* common.ignores
    no_default_ignore,
    fs,               \* the file system: path |-> [kind, content]
    moon_bin,         \* what get_moon_bin returned
    version_calls,    \* the `moon version` invocations: [bin, ok]
    stack,            \* WalkDir: per open directory, the entries not yet yielded
    moon_mods,        \* find_moon_mods: the Vec<MoonModInfo> built so far
    read_dirs,        \* the directories WalkDir has descended into
    warnings          \* the warnings of find_moon_mods: the manifest, and how
                      \* many manifests had been found before it

optVars == <<repos, skip_update, repeat, packages, fail_fast, write_justfile,
             justfile_mode, dry_run, jobs>>
workerVars == <<pc, result, all_deps, round, idx>>
worldVars == <<moon_calls, justfile, fs_writes>>
mainVars == <<mainpc, all_success, exit_code>>
justVars == <<just_i, success_count, skip_count, just_errs, summaries>>
scanVars == <<command, root, common_ignores, no_default_ignore, fs, moon_bin,
              version_calls, stack, moon_mods, read_dirs, warnings>>
vars == <<optVars, should_stop, results, workerVars, worldVars, mainVars, justVars, scanVars>>

\* what the steps of `apply` leave alone
notApply == <<justVars, scanVars>>

Idx == 1..Len(repos)

\* ------------------------------------------------------------ process_repo
NewResult(repo) ==
    [repo_root |-> repo.root, success |-> TRUE, updated_packages |-> <<>>,
     failed_packages |-> <<>>, errors |-> <<>>]

\* the dependency names of all manifests of a repository
RepoDeps(repo) == UNION {Range(repo.moon_mods[m].deps) : m \in 1..Len(repo.moon_mods)}

\* variant: a filter string has to equal the name
PassesFilterExact(dep, filter_packages) ==
    filter_packages = <<>> \/ \E p \in Range(filter_packages) : dep = p

\* the .filter(...) closure of step 2
PassesFilter(dep, filter_packages) ==
    filter_packages = <<>> \/ \E p \in Range(filter_packages) : Contains(dep, p)

\* the HashSet of step 2
FilteredDeps(repo, filter_packages) ==
    {dep \in RepoDeps(repo) : PassesFilter(dep, filter_packages)}

\* Err arm of step 1
UpdateFailed(res) ==
    [res EXCEPT !.errors = Append(@, "moon update failed"), !.success = FALSE]

\* variant: a good add sets success again
AddOkResets(res, dep) ==
    IF dep \in Range(res.updated_packages) THEN [res EXCEPT !.success = TRUE]
    ELSE [res EXCEPT !.updated_packages = Append(@, dep), !.success = TRUE]

\* variant: push without the contains test
AddOkAlways(res, dep) == [res EXCEPT !.updated_packages = Append(@, dep)]

\* Ok arm of the add match
AddOk(res, dep) ==
    IF dep \in Range(res.updated_packages) THEN res
    ELSE [res EXCEPT !.updated_packages = Append(@, dep)]

\* variant: the failure is not recorded in failed_packages
AddErrSilent(res, dep) == [res EXCEPT !.success = FALSE]

\* Err arm of the add match
AddErr(res, dep) ==
    [res EXCEPT !.failed_packages = Append(@, <<dep, "exit code">>), !.success = FALSE]

\* variant: a justfile failure fails the repository
JustfileErrFails(res) ==
    [res EXCEPT !.errors = Append(@, "justfile handling failed"), !.success = FALSE]

\* Err arm of step 4
JustfileErr(res) ==
    [res EXCEPT !.errors = Append(@, "justfile handling failed")]

\* variant: Create writes over an existing file
WantsWriteOver(mode, exists, dry) == mode = "Create" /\ ~dry

\* variant: dry-run is not consulted
WantsWriteAnyway(mode, exists, dry) == mode = "Create" /\ ~exists

\* handle_justfile calls std::fs::write only in Create mode, on a missing
\* file, outside dry-run
WantsWrite(mode, exists, dry) == mode = "Create" /\ ~exists /\ ~dry

\* variant: Err does not return
AfterUpdateNoReturn(ok) == "collect"

\* step 1: Ok falls through to step 2, Err returns the result
AfterUpdate(ok) == IF ok THEN "collect" ELSE "push"

\* variant: the justfile step sits in front of the add loop
AfterJustfileThenAdd == "collect"

\* step 4 is the last one: process_repo returns result
AfterJustfile == "push"

\* where process_repo goes once the add loop is over
AfterAdd == IF write_justfile THEN "justfile" ELSE "push"

\* where process_repo goes with the collected Vec: into the loop body if the
\* two nested for loops have an iteration at all
EnterAdd(deps) == IF repeat > 0 /\ Len(deps) > 0 THEN "add" ELSE AfterAdd

\* ------------------------------------------------------------- cmd_apply
\* variant: the flag is raised after a good result
ShouldStoreOnSuccess(ff, success) == ff /\ success

\* variant: the flag is raised after every push
ShouldStoreAlways(ff, success) == ff

\* the condition under which the closure raises should_stop after its push
ShouldStore(ff, success) == ff /\ ~success

\* variant: the closure has no stop check
SkipRepoNoCheck(ff, stop) == FALSE

\* the check at the top of the closure
SkipRepo(ff, stop) == ff /\ stop

\* variant: the loop overwrites all_success with each result's flag
AllSuccessLast(rs) == rs = <<>> \/ rs[Len(rs)].success

\* variant: the push replaces the last element
PushResultLossy(rs, r) == IF rs = <<>> THEN <<r>> ELSE [rs EXCEPT ![Len(rs)] = r]

\* Vec::push under the mutex
PushResult(rs, r) == Append(rs, r)

\* the loop over results that computes all_success
AllSuccess(rs) == \A k \in 1..Len(rs) : rs[k].success

Active ==
    {i \in Idx : pc[i] \in {"update", "collect", "add", "justfile", "push", "locked", "store"}}

\* ------------------------------------------------------------------- Init
\* preflight and discovery are over (or not looked at)
ScanIdle(cmd) ==
    /\ command = cmd
    /\ root = <<>>
    /\ common_ignores = <<>>
    /\ no_default_ignore = FALSE
    /\ fs = <<>>
    /\ moon_bin = "moon"
    /\ version_calls = <<>>
    /\ stack = <<>>
    /\ moon_mods = <<>>
    /\ read_dirs = {}
    /\ warnings = <<>>

\* no `just` run has happened
JustIdle ==
    /\ just_i = 1
    /\ success_count = 0
    /\ skip_count = 0
    /\ just_errs = 0
    /\ summaries = <<>>

\* the state cmd_apply is in when it reaches par_iter().for_each
Begin(rs, reps, pkgs, js, jf) ==
    /\ repos = rs
    /\ skip_update \in BOOLEAN
    /\ repeat \in reps
    /\ packages \in pkgs
    /\ fail_fast \in BOOLEAN
    /\ write_justfile \in BOOLEAN
    /\ justfile_mode \in JustfileModes
    /\ dry_run \in BOOLEAN
    /\ jobs \in js
    /\ should_stop = FALSE
    /\ results = <<>>
    /\ pc = [i \in Idx |-> "queued"]
    /\ result = [i \in Idx |-> NewResult(repos[i])]
    /\ all_deps = [i \in Idx |-> <<>>]
    /\ round = [i \in Idx |-> 0]
    /\ idx = [i \in Idx |-> 1]
    /\ moon_calls = [i \in Idx |-> <<>>]
    /\ justfile = jf
    /\ fs_writes = [i \in Idx |-> 0]
    /\ mainpc = "par_iter"
    /\ all_success = TRUE
    /\ exit_code = -1
    /\ JustIdle
    /\ ScanIdle("apply")

\* a pool run: up to MaxRepos repositories; the odd roots have no justfile yet
Init ==
    \E n \in 0..MaxRepos :
        Begin([k \in 1..n |-> PoolCatalog(k)], 0..PoolRepeat,
              PackageLists \ {<<<<>>>>}, 1..MaxJobs,
              [k \in 1..n |-> IF k % 2 = 1 THEN "absent" ELSE "present"])

\* a single-worker run: at most one repository, with or without a justfile,
\* on a pool of one thread
InitWorker ==
    \E rs \in {<<>>} \cup {<<r>> : r \in WorkerCatalog} :
        \E jf \in [1..Len(rs) -> {"absent", "present"}] :
            Begin(rs, 0..MaxRepeat, PackageLists, {1}, jf)

\* ---------------------------------------------------------------- actions
\* cmd_apply: `if repos.is_empty() { return Ok(true) }`, then main's exit code
NoRepos ==
    /\ mainpc = "par_iter"
    /\ repos = <<>>
    /\ mainpc' = "exit"
    /\ all_success' = TRUE
    /\ exit_code' = 0
    /\ UNCHANGED <<optVars, should_stop, results, workerVars, worldVars, notApply>>

\* a pool thread picks up repos[i]: the stop check, then the head of
\* process_repo up to its first external call
Start(i) ==
    /\ mainpc = "par_iter"
    /\ pc[i] = "queued"
    /\ Cardinality(Active) < jobs
    /\ pc' = [pc EXCEPT ![i] =
                IF SkipRepo(fail_fast, should_stop) THEN "skipped"
                ELSE IF ~skip_update /\ ~dry_run THEN "update"
                ELSE "collect"]
    /\ result' = [result EXCEPT ![i] = NewResult(repos[i])]
    /\ UNCHANGED <<optVars, should_stop, results, all_deps, round, idx, worldVars, mainVars, notApply>>

\* step 1: run_moon_command(["update"]); Err returns the result at once
Update(i) ==
    /\ pc[i] = "update"
    /\ \E ok \in BOOLEAN :
        /\ moon_calls' = [moon_calls EXCEPT ![i] = Append(@, [args |-> <<"update">>, ok |-> ok])]
        /\ result' = [result EXCEPT ![i] = IF ok THEN @ ELSE UpdateFailed(@)]
        /\ pc' = [pc EXCEPT ![i] = AfterUpdate(ok)]
    /\ UNCHANGED <<optVars, should_stop, results, all_deps, round, idx, justfile, fs_writes, mainVars, notApply>>

\* step 2: the filtered deps go through a HashSet into a Vec, in any order
Collect(i) ==
    /\ pc[i] = "collect"
    /\ \E order \in Perms(FilteredDeps(repos[i], packages)) :
        /\ all_deps' = [all_deps EXCEPT ![i] = order]
        /\ pc' = [pc EXCEPT ![i] = EnterAdd(order)]
    /\ round' = [round EXCEPT ![i] = 0]
    /\ idx' = [idx EXCEPT ![i] = 1]
    /\ UNCHANGED <<optVars, should_stop, results, result, worldVars, mainVars, notApply>>

\* variant: the loops give up once should_stop is raised
AddNextPcStop(i, last) ==
    IF fail_fast /\ should_stop THEN "push"
    ELSE IF last /\ round[i] + 1 = repeat THEN AfterAdd ELSE "add"

\* the end of an iteration: next dep, next round, or out of both loops
AddNextPc(i, last) == IF last /\ round[i] + 1 = repeat THEN AfterAdd ELSE "add"

\* step 3: one iteration of the inner loop (dry-run only prints)
Add(i) ==
    /\ pc[i] = "add"
    /\ LET dep == all_deps[i][idx[i]]
           last == idx[i] = Len(all_deps[i])
       IN /\ IF dry_run
             THEN UNCHANGED <<result, moon_calls>>
             ELSE \E ok \in BOOLEAN :
                    /\ moon_calls' = [moon_calls EXCEPT ![i] =
                                        Append(@, [args |-> <<"add", dep>>, ok |-> ok])]
                    /\ result' = [result EXCEPT ![i] =
                                        IF ok THEN AddOk(@, dep) ELSE AddErr(@, dep)]
          /\ idx' = [idx EXCEPT ![i] = IF last THEN 1 ELSE @ + 1]
          /\ round' = [round EXCEPT ![i] = IF last THEN @ + 1 ELSE @]
          /\ pc' = [pc EXCEPT ![i] = AddNextPc(i, last)]
    /\ UNCHANGED <<optVars, should_stop, results, all_deps, justfile, fs_writes, mainVars, notApply>>

\* handle_justfile(repos[i].root, mode, dry_run): Skip, Merge and an existing
\* file give Ok(false); Create on a missing file gives Ok(true), after a
\* std::fs::write outside dry-run, which may fail (and then may or may not
\* leave a file behind)
HandleJustfile(i, mode, ret) ==
    IF WantsWrite(mode, justfile[i] # "absent", dry_run)
    THEN \E out \in {"template", "partial", "absent"} :
           /\ fs_writes' = [fs_writes EXCEPT ![i] = @ + 1]
           /\ justfile' = [justfile EXCEPT ![i] = out]
           /\ ret = IF out = "template" THEN "Ok(true)" ELSE "Err"
    ELSE /\ UNCHANGED <<fs_writes, justfile>>
         /\ ret = IF mode = "Create" /\ justfile[i] = "absent" THEN "Ok(true)" ELSE "Ok(false)"

Returns == {"Ok(true)", "Ok(false)", "Err"}

\* step 4: handle_justfile; its Err is pushed to errors
Justfile(i) ==
    /\ pc[i] = "justfile"
    /\ \E ret \in Returns :
          /\ HandleJustfile(i, justfile_mode, ret)
          /\ result' = [result EXCEPT ![i] = IF ret = "Err" THEN JustfileErr(@) ELSE @]
    /\ pc' = [pc EXCEPT ![i] = AfterJustfile]
    /\ UNCHANGED <<optVars, should_stop, results, all_deps, round, idx, moon_calls, mainVars, notApply>>

\* results.lock().unwrap().push(result)
Push(i) ==
    /\ pc[i] = "push"
    /\ results' = PushResult(results, result[i])
    /\ pc' = [pc EXCEPT ![i] = IF ShouldStore(fail_fast, result[i].success) THEN "store" ELSE "returned"]
    /\ UNCHANGED <<optVars, should_stop, result, all_deps, round, idx, worldVars, mainVars, notApply>>

\* should_stop.store(true, Relaxed)
Store(i) ==
    /\ pc[i] = "store"
    /\ should_stop' = TRUE
    /\ pc' = [pc EXCEPT ![i] = "returned"]
    /\ UNCHANGED <<optVars, results, result, all_deps, round, idx, worldVars, mainVars, notApply>>

\* for_each has joined: the results loop, Ok(all_success), main's exit code
Report ==
    /\ mainpc = "par_iter"
    /\ repos # <<>>
    /\ \A i \in Idx : pc[i] \in {"returned", "skipped"}
    /\ mainpc' = "exit"
    /\ all_success' = AllSuccess(results)
    /\ exit_code' = IF AllSuccess(results) THEN 0 ELSE 1
    /\ UNCHANGED <<optVars, should_stop, results, workerVars, worldVars, notApply>>

Next ==
    \/ NoRepos
    \/ \E i \in Idx : Start(i)
    \/ \E i \in Idx : Update(i)
    \/ \E i \in Idx : Collect(i)
    \/ \E i \in Idx : Add(i)
    \/ \E i \in Idx : Justfile(i)
    \/ \E i \in Idx : Push(i)
    \/ \E i \in Idx : Store(i)
    \/ Report

Spec == Init /\ [][Next]_vars

WorkerSpec == InitWorker /\ [][Next]_vars

\* ------------------------------------------------- the pool, with its mutex
\* variant: the guard is never dropped
LockHoldersLeaked == {j \in Idx : pc[j] \in {"locked", "store", "returned"}}

\* the closures that hold the MutexGuard of `results`: the guard is a temporary
\* of the push statement
LockHolders == {j \in Idx : pc[j] = "locked"}

\* results.lock(): blocks while another closure holds the guard
Lock(i) ==
    /\ pc[i] = "push"
    /\ LockHolders = {}
    /\ pc' = [pc EXCEPT ![i] = "locked"]
    /\ UNCHANGED <<optVars, should_stop, results, result, all_deps, round, idx, worldVars,
                   mainVars, notApply>>

\* .unwrap().push(result), and the guard is dropped
PushLocked(i) ==
    /\ pc[i] = "locked"
    /\ results' = PushResult(results, result[i])
    /\ pc' = [pc EXCEPT ![i] = IF ShouldStore(fail_fast, result[i].success) THEN "store" ELSE "returned"]
    /\ UNCHANGED <<optVars, should_stop, result, all_deps, round, idx, worldVars, mainVars, notApply>>

\* the closure of repos[i], from the moment a pool thread picks it up
Worker(i) ==
    \/ Start(i) \/ Update(i) \/ Collect(i) \/ Add(i) \/ Justfile(i)
    \/ Lock(i) \/ PushLocked(i) \/ Store(i)

\* an `apply` that updates, adds every dependency once and creates justfiles
InitPool ==
    /\ Init
    /\ ~skip_update
    /\ ~dry_run
    /\ repeat = 1
    /\ packages = <<>>
    /\ write_justfile
    /\ justfile_mode = "Create"

NextPool ==
    \/ NoRepos
    \/ \E i \in Idx : Start(i)
    \/ \E i \in Idx : Update(i)
    \/ \E i \in Idx : Collect(i)
    \/ \E i \in Idx : Add(i)
    \/ \E i \in Idx : Justfile(i)
    \/ \E i \in Idx : Lock(i)
    \/ \E i \in Idx : PushLocked(i)
    \/ \E i \in Idx : Store(i)
    \/ Report

\* every tool invocation and file write returns, a pool thread that is free
\* picks up a queued closure, a released mutex is taken by a waiter, and
\* for_each returns once every closure has
Fairness ==
    /\ \A i \in 1..MaxRepos : WF_vars(i \in Idx /\ Worker(i))
    /\ WF_vars(NoRepos)
    /\ WF_vars(Report)

FairSpec == InitPool /\ [][NextPool]_vars /\ Fairness

\* ---------------------------------------------------------------- cmd_just
\* what the steps of `just` leave alone
notJust == <<repos, skip_update, repeat, packages, fail_fast, write_justfile,
             justfile_mode, dry_run, jobs, should_stop, results, workerVars, moon_calls,
             scanVars>>

\* `just` on up to MaxRepos repositories, each with or without a justfile
InitJust ==
    /\ \E n \in 0..MaxRepos : repos = [k \in 1..n |-> PoolCatalog(k)]
    /\ skip_update = FALSE
    /\ repeat = 1
    /\ packages = <<>>
    /\ fail_fast = FALSE
    /\ write_justfile = TRUE
    /\ justfile_mode \in JustfileModes
    /\ dry_run \in BOOLEAN
    /\ jobs = 1
    /\ should_stop = FALSE
    /\ results = <<>>
    /\ pc = [i \in Idx |-> "queued"]
    /\ result = [i \in Idx |-> NewResult(repos[i])]
    /\ all_deps = [i \in Idx |-> <<>>]
    /\ round = [i \in Idx |-> 0]
    /\ idx = [i \in Idx |-> 1]
    /\ moon_calls = [i \in Idx |-> <<>>]
    /\ justfile \in [Idx -> {"absent", "present"}]
    /\ fs_writes = [i \in Idx |-> 0]
    /\ mainpc = "just_loop"
    /\ all_success = TRUE
    /\ exit_code = -1
    /\ JustIdle
    /\ ScanIdle("just")

\* cmd_just: `if repos.is_empty() { return Ok(true) }`
JustNoRepos ==
    /\ mainpc = "just_loop"
    /\ repos = <<>>
    /\ mainpc' = "exit"
    /\ all_success' = TRUE
    /\ exit_code' = 0
    /\ UNCHANGED <<notJust, justfile, fs_writes, justVars>>

\* one iteration of `for repo in &repos`
JustStep ==
    /\ mainpc = "just_loop"
    /\ just_i <= Len(repos)
    /\ \E ret \in Returns :
          /\ HandleJustfile(just_i, justfile_mode, ret)
          /\ success_count' = IF ret = "Ok(true)" THEN success_count + 1 ELSE success_count
          /\ skip_count' = IF ret = "Ok(false)" THEN skip_count + 1 ELSE skip_count
          /\ just_errs' = IF ret = "Err" THEN just_errs + 1 ELSE just_errs
    /\ just_i' = just_i + 1
    /\ UNCHANGED <<notJust, mainVars, summaries>>

\* the Summary line, Ok(true), exit code 0
JustSummary ==
    /\ mainpc = "just_loop"
    /\ repos # <<>>
    /\ just_i > Len(repos)
    /\ summaries' = Append(summaries, [created |-> success_count, skipped |-> skip_count,
                                       errors |-> just_errs])
    /\ mainpc' = "exit"
    /\ all_success' = TRUE
    /\ exit_code' = 0
    /\ UNCHANGED <<notJust, justfile, fs_writes, just_i, success_count, skip_count, just_errs>>

\* the same command is run once more on the tree the last run left
JustAgain ==
    /\ mainpc = "exit"
    /\ summaries # <<>>
    /\ Len(summaries) < MaxRuns
    /\ mainpc' = "just_loop"
    /\ exit_code' = -1
    /\ just_i' = 1
    /\ success_count' = 0
    /\ skip_count' = 0
    /\ just_errs' = 0
    /\ UNCHANGED <<notJust, justfile, fs_writes, all_success, summaries>>

NextJust == JustNoRepos \/ JustStep \/ JustSummary \/ JustAgain

JustSpec == InitJust /\ [][NextJust]_vars

\* ------------------------------------------------------ run and discovery
\* the trees that are scanned: /w with the subdirectories a, a/b, .h and
\* target; g0, ga and rg say whether /w, /w/a and / hold a `.git` entry, m0,
\* ma and mb what the manifests of /w, /w/a and /w/a/b are: absent, not valid
\* JSON, unreadable, or a manifest with the given keys of "deps"
Dir == [kind |-> "dir", state |-> "dir", keys |-> {}]
File(st, ks) == [kind |-> "file", state |-> st, keys |-> ks]
Absent == File("absent", {})
Manifest(ks) == File("ok", ks)

Entries(g0, m0, ga, ma, mb, rg) ==
    {<<W, Dir>>, <<WA, Dir>>, <<WAB, Dir>>, <<WH, Dir>>, <<WT, Dir>>,
     <<Append(WH, ManifestName), Manifest({XCore})>>,
     <<Append(WT, ManifestName), Manifest({XUtil})>>}
    \cup (IF g0 THEN {<<Append(W, GitName), Dir>>} ELSE {})
    \cup (IF ga THEN {<<Append(WA, GitName), File("other", {})>>} ELSE {})
    \cup (IF rg THEN {<<<<GitName>>, Dir>>} ELSE {})
    \cup (IF m0 = Absent THEN {} ELSE {<<Append(W, ManifestName), m0>>})
    \cup (IF ma = Absent THEN {} ELSE {<<Append(WA, ManifestName), ma>>})
    \cup (IF mb = Absent THEN {} ELSE {<<Append(WAB, ManifestName), mb>>})

Tree(es) == [p \in {e[1] : e \in es} |-> (CHOOSE e \in es : e[1] = p)[2]]

Trees ==
    {Tree(Entries(g0, m0, ga, ma, mb, rg)) :
        g0 \in BOOLEAN, ga \in BOOLEAN, rg \in BOOLEAN,
        m0 \in {Absent, File("bad", {}), Manifest({XCore})},
        ma \in {Absent, File("unreadable", {}), Manifest({YUtil, XCore})},
        mb \in {Absent, Manifest({XUtil})}}

Roots == {W, WA, WH, Q}
IgnoreLists == {<<>>, <<<<"b">>>>, <<<<"a">>, TargetName>>}

Exists(p) == p \in DOMAIN fs
Children(d) == {p \in DOMAIN fs : Len(p) = Len(d) + 1 /\ Parent(p) = d}

\* check_moon_available: Ok(()) lets run go on to the command, bail! ends it
AfterProbeAnyway(ok) == "discover"

AfterProbe(ok) == IF ok THEN "discover" ELSE "exit"

\* discover_repos: the ignore list it builds
IgnoreList ==
    common_ignores \o (IF no_default_ignore THEN <<>> ELSE DEFAULT_IGNORES)

\* should_ignore: some normal component starts with '.' or is in the list
ShouldIgnoreListed(path, ignores) ==
    \E k \in 1..Len(path) : \E j \in 1..Len(ignores) : path[k] = ignores[j]

should_ignore(path, ignores) ==
    \E k \in 1..Len(path) :
        \/ (Len(path[k]) > 0 /\ path[k][1] = ".")
        \/ \E j \in 1..Len(ignores) : path[k] = ignores[j]

\* Vec<String>::sort of a set of keys
SortedKeys(keys) ==
    CHOOSE s \in Perms(keys) : \A k \in 1..(Len(s) - 1) : StrLess(s[k], s[k + 1])

\* parse_moon_mod: Err when the read or the parse fails, else the sorted keys
ParseOk(file) == file.state = "ok"
parse_moon_mod(file) == SortedKeys(file.keys)

\* find_moon_mods: the Err arm of `match parse_moon_mod` warns and goes on
OnParseErrAbort == "exit"

OnParseErr == "walk"

\* find_repo_root: the loop that walks up from `current`
RECURSIVE WalkUp(_)
WalkUp(current) ==
    IF Exists(Append(current, GitName)) THEN [found |-> TRUE, at |-> current]
    ELSE IF current = <<>> THEN [found |-> FALSE, at |-> current]
    ELSE WalkUp(Parent(current))

FindRepoRootOwnDir(moon_mod_path) == Parent(moon_mod_path)

find_repo_root(moon_mod_path) ==
    LET dir == Parent(moon_mod_path)
        up == WalkUp(dir)
    IN  IF up.found THEN up.at ELSE dir

\* discover_repos: group by repo root, then sort by root
RepoMap(mods) ==
    [r \in {find_repo_root(mods[k].path) : k \in 1..Len(mods)} |->
        SelectSeq(mods, LAMBDA m : find_repo_root(m.path) = r)]

SortRepos(rs) ==
    CHOOSE s \in Perms(Range(rs)) :
        \A k \in 1..(Len(s) - 1) : ~PathLess(s[k + 1].root, s[k].root)

DiscoverRepos(mods) ==
    LET repo_map == RepoMap(mods)
        unsorted == CHOOSE s \in Perms({[root |-> r, moon_mods |-> repo_map[r]] :
                                        r \in DOMAIN repo_map}) : TRUE
    IN  SortRepos(unsorted)

\* what the steps of run and discover_repos leave alone
notScan == <<skip_update, repeat, packages, fail_fast, write_justfile, justfile_mode,
             dry_run, jobs, should_stop, results, workerVars, worldVars, all_success,
             justVars, command, root, common_ignores, no_default_ignore, fs>>

\* a process that has parsed its command line and is about to call run
InitScan ==
    /\ command \in {"scan", "apply", "just"}
    /\ root \in Roots
    /\ common_ignores \in IgnoreLists
    /\ no_default_ignore \in BOOLEAN
    /\ fs \in Trees
    /\ moon_bin = "unresolved"
    /\ version_calls = <<>>
    /\ stack = <<>>
    /\ moon_mods = <<>>
    /\ read_dirs = {}
    /\ warnings = <<>>
    /\ repos = <<>>
    /\ skip_update = FALSE
    /\ repeat = 1
    /\ packages = <<>>
    /\ fail_fast = FALSE
    /\ write_justfile = TRUE
    /\ justfile_mode = "skip"
    /\ dry_run = FALSE
    /\ jobs = 1
    /\ should_stop = FALSE
    /\ results = <<>>
    /\ pc = <<>>
    /\ result = <<>>
    /\ all_deps = <<>>
    /\ round = <<>>
    /\ idx = <<>>
    /\ moon_calls = <<>>
    /\ justfile = <<>>
    /\ fs_writes = <<>>
    /\ mainpc = "get_moon_bin"
    /\ all_success = TRUE
    /\ exit_code = -1
    /\ JustIdle

\* get_moon_bin: `moon version` through PATH, else ~/.moon/bin/moon if HOME is
\* set and the file exists, else the bare name
get_moon_bin ==
    \E path_ok \in BOOLEAN, home_exists \in BOOLEAN :
        /\ version_calls' = Append(version_calls, [bin |-> "moon", ok |-> path_ok])
        /\ moon_bin' = IF path_ok THEN "moon"
                       ELSE IF home_exists THEN "~/.moon/bin/moon" ELSE "moon"

\* check_moon_available: `let moon_bin = get_moon_bin();`
GetMoonBin ==
    /\ mainpc = "get_moon_bin"
    /\ get_moon_bin
    /\ mainpc' = "check_moon_available"
    /\ UNCHANGED <<notScan, repos, exit_code, stack, moon_mods, read_dirs, warnings>>

\* check_moon_available: `<moon_bin> version`; run's `?` and main's exit code
CheckMoonAvailable ==
    /\ mainpc = "check_moon_available"
    /\ \E ok \in BOOLEAN :
        /\ version_calls' = Append(version_calls, [bin |-> moon_bin, ok |-> ok])
        /\ mainpc' = AfterProbe(ok)
        /\ exit_code' = IF AfterProbe(ok) = "exit" THEN 1 ELSE exit_code
    /\ UNCHANGED <<notScan, repos, moon_bin, stack, moon_mods, read_dirs, warnings>>

\* discover_repos: canonicalize the root (Err when it does not exist), then
\* WalkDir::new(root)
Canonicalize ==
    /\ mainpc = "discover"
    /\ IF Exists(root)
       THEN /\ mainpc' = "walk"
            /\ stack' = <<{root}>>
            /\ UNCHANGED exit_code
       ELSE /\ mainpc' = "exit"
            /\ exit_code' = 1
            /\ UNCHANGED stack
    /\ UNCHANGED <<notScan, repos, moon_bin, version_calls, moon_mods, read_dirs, warnings>>

\* find_moon_mods: one entry of the walk. filter_entry drops an ignored entry
\* and does not descend into it; a directory is descended into (an error there
\* is returned by `entry?`); a file named moon.mod.json is parsed
WalkEntry ==
    /\ mainpc = "walk"
    /\ stack # <<>>
    /\ \E e \in stack[Len(stack)], readable \in BOOLEAN :
        LET rest == [stack EXCEPT ![Len(stack)] = @ \ {e}]
        IN  IF should_ignore(e, IgnoreList)
            THEN /\ stack' = rest
                 /\ UNCHANGED <<mainpc, exit_code, moon_mods, read_dirs, warnings>>
            ELSE IF fs[e].kind = "dir"
            THEN IF readable
                 THEN /\ stack' = Append(rest, Children(e))
                      /\ read_dirs' = read_dirs \cup {e}
                      /\ UNCHANGED <<mainpc, exit_code, moon_mods, warnings>>
                 ELSE /\ mainpc' = "exit"
                      /\ exit_code' = 1
                      /\ stack' = rest
                      /\ UNCHANGED <<moon_mods, read_dirs, warnings>>
            ELSE IF e[Len(e)] = ManifestName
            THEN IF ParseOk(fs[e])
                 THEN /\ moon_mods' = Append(moon_mods,
                              [path |-> e, deps |-> parse_moon_mod(fs[e])])
                      /\ stack' = rest
                      /\ UNCHANGED <<mainpc, exit_code, read_dirs, warnings>>
                 ELSE /\ warnings' = Append(warnings,
                              [path |-> e, after |-> Len(moon_mods)])
                      /\ mainpc' = OnParseErr
                      /\ exit_code' = IF OnParseErr = "exit" THEN 1 ELSE exit_code
                      /\ stack' = rest
                      /\ UNCHANGED <<moon_mods, read_dirs>>
            ELSE /\ stack' = rest
                 /\ UNCHANGED <<mainpc, exit_code, moon_mods, read_dirs, warnings>>
    /\ UNCHANGED <<notScan, repos, moon_bin, version_calls>>

\* WalkDir: a directory whose entries have all been yielded is closed
WalkLeave ==
    /\ mainpc = "walk"
    /\ stack # <<>>
    /\ stack[Len(stack)] = {}
    /\ stack' = SubSeq(stack, 1, Len(stack) - 1)
    /\ UNCHANGED <<notScan, repos, moon_bin, version_calls, mainpc, exit_code,
                   moon_mods, read_dirs, warnings>>

\* discover_repos after the walk: group, sort, and return to the command
Group ==
    /\ mainpc = "walk"
    /\ stack = <<>>
    /\ repos' = DiscoverRepos(moon_mods)
    /\ mainpc' = IF command = "scan" THEN "cmd_scan"
                 ELSE IF command = "apply" THEN "cmd_apply" ELSE "cmd_just"
    /\ UNCHANGED <<notScan, moon_bin, version_calls, stack, exit_code, moon_mods,
                   read_dirs, warnings>>

\* cmd_scan prints the repositories and returns Ok(true)
CmdScan ==
    /\ mainpc = "cmd_scan"
    /\ mainpc' = "exit"
    /\ exit_code' = 0
    /\ UNCHANGED <<notScan, repos, moon_bin, version_calls, stack, moon_mods,
                   read_dirs, warnings>>

NextScan ==
    GetMoonBin \/ CheckMoonAvailable \/ Canonicalize \/ WalkEntry \/ WalkLeave
        \/ Group \/ CmdScan

ScanSpec == InitScan /\ [][NextScan]_vars

\* ------------------------------------------------------ run_moon_command
\* the ways the preflight of a process that got as far as cmd_apply can have
\* gone: `moon` found through PATH, or not and ~/.moon/bin/moon taken, or not
\* and the bare name kept (which then answered)
Preflights ==
    { [bin |-> "moon",
       calls |-> <<[bin |-> "moon", ok |-> TRUE], [bin |-> "moon", ok |-> TRUE]>>],
      [bin |-> "~/.moon/bin/moon",
       calls |-> <<[bin |-> "moon", ok |-> FALSE], [bin |-> "~/.moon/bin/moon", ok |-> TRUE]>>],
      [bin |-> "moon",
       calls |-> <<[bin |-> "moon", ok |-> FALSE], [bin |-> "moon", ok |-> TRUE]>>] }

\* cmd_apply on one repository with one dependency, on one thread, after a
\* preflight that passed
InitTool ==
    /\ repos = <<PoolCatalog(1)>>
    /\ skip_update \in BOOLEAN
    /\ repeat \in 0..MaxRepeat
    /\ packages = <<>>
    /\ fail_fast \in BOOLEAN
    /\ write_justfile \in BOOLEAN
    /\ justfile_mode = "Create"
    /\ dry_run = FALSE
    /\ jobs = 1
    /\ should_stop = FALSE
    /\ results = <<>>
    /\ pc = [i \in Idx |-> "queued"]
    /\ result = [i \in Idx |-> NewResult(repos[i])]
    /\ all_deps = [i \in Idx |-> <<>>]
    /\ round = [i \in Idx |-> 0]
    /\ idx = [i \in Idx |-> 1]
    /\ moon_calls = [i \in Idx |-> <<>>]
    /\ justfile = [i \in Idx |-> "absent"]
    /\ fs_writes = [i \in Idx |-> 0]
    /\ mainpc = "par_iter"
    /\ all_success = TRUE
    /\ exit_code = -1
    /\ JustIdle
    /\ command = "apply"
    /\ root = <<>>
    /\ common_ignores = <<>>
    /\ no_default_ignore = FALSE
    /\ fs = <<>>
    /\ \E p \in Preflights : moon_bin = p.bin /\ version_calls = p.calls
    /\ stack = <<>>
    /\ moon_mods = <<>>
    /\ read_dirs = {}
    /\ warnings = <<>>

\* run_moon_command has its moon_bin: get_moon_bin was called twice by the
\* preflight's and once for each invocation, this one included
BinInHand(i) == Len(version_calls) = 2 + Len(moon_calls[i]) + 1

\* run_moon_command: `let moon_bin = get_moon_bin();`
RunMoonBin(i) ==
    /\ pc[i] \in {"update", "add"}
    /\ ~dry_run
    /\ ~BinInHand(i)
    /\ get_moon_bin
    /\ UNCHANGED <<optVars, should_stop, results, workerVars, worldVars, mainVars, justVars,
                   command, root, common_ignores, no_default_ignore, fs, stack, moon_mods,
                   read_dirs, warnings>>

NextTool ==
    \/ \E i \in Idx : Start(i)
    \/ \E i \in Idx : RunMoonBin(i)
    \/ \E i \in Idx : BinInHand(i) /\ Update(i)
    \/ \E i \in Idx : Collect(i)
    \/ \E i \in Idx : BinInHand(i) /\ Add(i)
    \/ \E i \in Idx : Justfile(i)
    \/ \E i \in Idx : Push(i)
    \/ \E i \in Idx : Store(i)
    \/ Report

ToolSpec == InitTool /\ [][NextTool]_vars

\* ------------------------------------------------------- what was observed
\* number of `moon add dep` invocations in repos[i].root
AddCalls(i, dep) ==
    Cardinality({k \in 1..Len(moon_calls[i]) : moon_calls[i][k].args = <<"add", dep>>})

\* p occurs in s: s splits into a prefix, p and a suffix
IsInfix(p, s) == \E a \in 0..Len(s) : \E b \in a..Len(s) : SubSeq(s, a + 1, b) = p

\* the dependencies `apply` is meant to add in repos[i]
Expected(i) ==
    {d \in DepNames :
        /\ \E m \in 1..Len(repos[i].moon_mods) : d \in Range(repos[i].moon_mods[m].deps)
        /\ (packages = <<>> \/ \E k \in 1..Len(packages) : IsInfix(packages[k], d))}

UpdateFailedAt(i) ==
    /\ moon_calls[i] # <<>>
    /\ moon_calls[i][1] = [args |-> <<"update">>, ok |-> FALSE]

Skipped == {i \in Idx : pc[i] = "skipped"}

\* the whole plan of repos[i] has run: FAILED after the update, or DONE with
\* the update call (if any), every add of every round and the justfile step
PlanComplete(i) ==
    \/ /\ UpdateFailedAt(i)
       /\ ~result[i].success
    \/ /\ (~skip_update /\ ~dry_run) =>
             (moon_calls[i] # <<>> /\ moon_calls[i][1] = [args |-> <<"update">>, ok |-> TRUE])
       /\ \A d \in DepNames :
             AddCalls(i, d) = IF d \in Expected(i) /\ ~dry_run THEN repeat ELSE 0
       /\ (write_justfile /\ justfile_mode = "Create" /\ ~dry_run) =>
             (justfile[i] = "present" \/ fs_writes[i] = 1)

InPlan == {"update", "collect", "add", "justfile"}

\* ------------------------------------------------------------------ claims

\* C1: the value cmd_apply returns is true exactly when every collected
\* RepoResult has success=true and, under fail-fast, there is one result per
\* discovered repository; a run that skipped a repository exits with 1.
C1_OverallSuccess ==
    mainpc = "exit" =>
        /\ all_success <=> /\ \A k \in 1..Len(results) : results[k].success
                           /\ fail_fast => Len(results) = Len(repos)
        /\ exit_code = IF all_success THEN 0 ELSE 1
        /\ Skipped # {} => exit_code = 1

C1_Witness ==
    /\ mainpc = "exit"
    /\ fail_fast
    /\ Skipped # {}
    /\ Len(results) < Len(repos)
    /\ exit_code = 1

\* C2: fail-fast never preempts a running worker.  A worker that is past its
\* stop check stays in its plan whatever should_stop is and leaves it only
\* with the plan complete (DONE, or FAILED after the update), and every
\* RepoResult in the accumulator is the final result of such a worker.
C2_NoPreemption ==
    /\ [](\A k \in 1..Len(results) :
            \E i \in Idx : /\ repos[i].root = results[k].repo_root
                           /\ pc[i] \in {"store", "returned"}
                           /\ results[k] = result[i]
                           /\ PlanComplete(i))
    /\ [][\A i \in Idx :
            pc[i] \in InPlan =>
                /\ pc'[i] \in InPlan \cup {"push"}
                /\ pc'[i] = "push" => PlanComplete(i)']_vars

\* a worker finished its whole plan and pushed a good result although the
\* flag had been raised by a failure pushed before it
C2_Witness ==
    /\ fail_fast
    /\ should_stop
    /\ Len(results) >= 2
    /\ ~results[1].success
    /\ \E k \in 2..Len(results) : results[k].success /\ results[k].updated_packages # <<>>

\* C3: under fail-fast a worker that sees stop=true at its start is skipped:
\* it yields no RepoResult and has no external effect (no moon update, no
\* moon add, no justfile write).
C3_SkippedNoEffect ==
    /\ [][\A i \in Idx :
            (fail_fast /\ should_stop /\ pc[i] = "queued" /\ pc'[i] # "queued") =>
                pc'[i] = "skipped"]_vars
    /\ [](\A i \in Skipped :
            /\ fail_fast
            /\ \A k \in 1..Len(results) : results[k].repo_root # repos[i].root
            /\ moon_calls[i] = <<>>
            /\ fs_writes[i] = 0
            /\ justfile[i] = (IF i % 2 = 1 THEN "absent" ELSE "present"))

C3_Witness ==
    /\ mainpc = "exit"
    /\ \E i \in Skipped : i % 2 = 1 /\ write_justfile /\ justfile_mode = "Create" /\ ~dry_run

\* C4: under fail-fast there are never more results than repositories, a
\* repository is skipped only when a result with success=false is already in
\* the accumulator, and what was collected stays collected for the report.
C4_SkipOnlyAfterFailure ==
    /\ [](fail_fast => Len(results) <= Len(repos))
    /\ [][/\ \A i \in Idx :
               (pc[i] = "queued" /\ pc'[i] = "skipped") =>
                   \E k \in 1..Len(results) : ~results[k].success
          /\ Len(results') >= Len(results)
          /\ SubSeq(results', 1, Len(results)) = results]_vars

C4_Witness ==
    /\ mainpc = "exit"
    /\ Skipped # {}
    /\ Len(results) >= 1
    /\ ~results[Len(results)].success
    /\ exit_code = 1

Finished == {"push", "store", "returned"}

\* the failing `moon add` invocations in repos[i].root, in order
FailedAdds(i) == SelectSeq(moon_calls[i], LAMBDA c : c.args[1] = "add" /\ ~c.ok)

\* the dependencies whose `moon add` succeeded at least once in repos[i].root
AddedOnce(i) ==
    {d \in DepNames : \E k \in 1..Len(moon_calls[i]) :
                          moon_calls[i][k] = [args |-> <<"add", d>>, ok |-> TRUE]}

JustfileFailedAt(i) == fs_writes[i] = 1 /\ justfile[i] # "template"

\* C5: outside dry-run and without --skip-update the plan starts with moon
\* update, and when that fails the worker returns at once with exactly one
\* repo-level error and success=false: no moon add, no justfile write, no
\* updated or failed package.
C5_UpdateFailureReturns ==
    \A i \in Idx :
        /\ (~skip_update /\ ~dry_run /\ pc[i] \in {"collect", "add", "justfile"} \cup Finished) =>
              (moon_calls[i] # <<>> /\ moon_calls[i][1].args = <<"update">>)
        /\ UpdateFailedAt(i) =>
              /\ pc[i] \in Finished
              /\ result[i] = [repo_root |-> repos[i].root, success |-> FALSE,
                              updated_packages |-> <<>>, failed_packages |-> <<>>,
                              errors |-> <<"moon update failed">>]
              /\ Len(moon_calls[i]) = 1
              /\ fs_writes[i] = 0

C5_Witness ==
    \E i \in Idx :
        /\ UpdateFailedAt(i)
        /\ pc[i] = "returned"
        /\ results = <<result[i]>>
        /\ repeat > 0
        /\ Expected(i) # {}
        /\ write_justfile /\ justfile_mode = "Create" /\ justfile[i] = "absent"

\* C6: when the update step did not fail and outside dry-run, moon add runs
\* exactly `repeat` times for every dependency of the repository that passes
\* the package filter and never for another one; every failed add is
\* recorded in failed_packages and clears success without ending the loops.
C6_AddCoverage ==
    \A i \in Idx :
        /\ result[i].failed_packages =
                 [k \in 1..Len(FailedAdds(i)) |-> <<FailedAdds(i)[k].args[2], "exit code">>]
        /\ FailedAdds(i) # <<>> => ~result[i].success
        /\ (pc[i] \in {"justfile"} \cup Finished /\ ~dry_run /\ ~UpdateFailedAt(i)) =>
              \A d \in DepNames : AddCalls(i, d) = IF d \in Expected(i) THEN repeat ELSE 0

C6_Witness ==
    \E i \in Idx :
        /\ pc[i] = "returned"
        /\ repeat = 2
        /\ packages # <<>>
        /\ Expected(i) # {}
        /\ Expected(i) # RepoDeps(repos[i])
        /\ Len(FailedAdds(i)) = 1
        /\ \E k \in 1..Len(moon_calls[i]) - 1 :
              moon_calls[i][k].args[1] = "add" /\ ~moon_calls[i][k].ok

\* C7: a failure of the justfile step is one entry of errors and leaves
\* success as it was: with update and all adds good the repository still has
\* success=true and its closure does not raise should_stop.
C7_JustfileErrorKeepsSuccess ==
    /\ [](\A i \in Idx :
            (pc[i] \in Finished /\ JustfileFailedAt(i)) =>
                /\ Cardinality({k \in 1..Len(result[i].errors) :
                                   result[i].errors[k] = "justfile handling failed"}) = 1
                /\ result[i].success <=> \A k \in 1..Len(moon_calls[i]) : moon_calls[i][k].ok
                /\ result[i].success => pc[i] # "store")
    /\ [][/\ \A i \in Idx : pc[i] = "justfile" => result'[i].success = result[i].success
          /\ (should_stop' /\ ~should_stop) =>
                \E i \in Idx : pc[i] = "store" /\ ~result[i].success]_vars

C7_Witness ==
    /\ mainpc = "exit"
    /\ fail_fast
    /\ ~should_stop
    /\ exit_code = 0
    /\ \E i \in Idx : /\ JustfileFailedAt(i)
                      /\ result[i].success
                      /\ Len(moon_calls[i]) = 2

\* C8: throughout the add loop and in the final RepoResult updated_packages
\* has no duplicates and holds exactly the dependencies whose moon add
\* succeeded at least once so far, all of them filtered dependencies of the
\* repository.
C8_UpdatedPackages ==
    \A i \in Idx :
        /\ NoDup(result[i].updated_packages)
        /\ Range(result[i].updated_packages) = AddedOnce(i)
        /\ Range(result[i].updated_packages) \subseteq Expected(i)

C8_Witness ==
    \E i \in Idx :
        /\ pc[i] = "add"
        /\ round[i] = 1
        /\ Len(result[i].updated_packages) >= 2
        /\ \E k \in 1..Len(moon_calls[i]) : \E l \in (k + 1)..Len(moon_calls[i]) :
              /\ moon_calls[i][k] = moon_calls[i][l]
              /\ moon_calls[i][k].args[1] = "add"
              /\ moon_calls[i][k].ok

\* C9: in dry-run no worker invokes moon or writes a justfile, every
\* RepoResult is success=true with empty updated_packages, failed_packages
\* and errors, and apply ends with one result per repository and success.
C9_DryRun ==
    dry_run =>
        /\ \A i \in Idx :
              /\ moon_calls[i] = <<>>
              /\ fs_writes[i] = 0
              /\ justfile[i] = (IF i % 2 = 1 THEN "absent" ELSE "present")
              /\ result[i] = NewResult(repos[i])
        /\ \A k \in 1..Len(results) :
              /\ results[k].success
              /\ results[k].updated_packages = <<>>
              /\ results[k].failed_packages = <<>>
              /\ results[k].errors = <<>>
        /\ mainpc = "exit" =>
              (all_success /\ exit_code = 0 /\ Len(results) = Len(repos))

C9_Witness ==
    /\ dry_run
    /\ mainpc = "exit"
    /\ Len(repos) >= 2
    /\ fail_fast /\ ~skip_update /\ repeat >= 1 /\ packages = <<>>
    /\ write_justfile /\ justfile_mode = "Create"

\* C10 as claimed: --repeat 2 ends with the same set of updated_packages as
\* --repeat 1.  The state of process_repo at the end of its first round is
\* the state a --repeat 1 run on the same inputs leaves the loop with, so
\* the claim says that no later round changes the set.
C10_SameSetAsClaimed ==
    [][\A i \in Idx :
         (pc[i] = "add" /\ round[i] >= 1) =>
             Range(result'[i].updated_packages) = Range(result[i].updated_packages)]_vars

\* C10 amended: a later round only extends what the first round left:
\* updated_packages grows by packages whose add failed before (and now
\* succeeded), failed_packages grows at its end, errors stay, and success
\* can only go from true to false.
C10_RepeatExtends ==
    [][\A i \in Idx :
         (pc[i] = "add" /\ round[i] >= 1) =>
             LET old == result[i]
                 new == result'[i]
             IN /\ Len(new.updated_packages) >= Len(old.updated_packages)
                /\ SubSeq(new.updated_packages, 1, Len(old.updated_packages)) = old.updated_packages
                /\ \A d \in Range(new.updated_packages) \ Range(old.updated_packages) :
                      \E k \in 1..Len(old.failed_packages) : old.failed_packages[k][1] = d
                /\ Len(new.failed_packages) >= Len(old.failed_packages)
                /\ SubSeq(new.failed_packages, 1, Len(old.failed_packages)) = old.failed_packages
                /\ new.errors = old.errors
                /\ new.success => old.success]_vars

\* a package whose add failed in round 1 and succeeded in round 2
C10_Witness ==
    \E i \in Idx :
        /\ repeat = 2
        /\ pc[i] = "returned"
        /\ \E d \in Range(result[i].updated_packages) :
              /\ AddCalls(i, d) = 2
              /\ \E k \in 1..Len(result[i].failed_packages) : result[i].failed_packages[k][1] = d

\* C12: whatever order the workers finish in, the RepoResults apply reports
\* are in ascending order of repo root.
C12_ReportedAscending ==
    mainpc = "exit" =>
        \A k, l \in 1..Len(results) : k < l => results[k].repo_root < results[l].repo_root

\* C17: under fail-fast a worker that ended with success=false has raised
\* should_stop by the time its closure returns, and should_stop never goes
\* back to false; without fail-fast it is never raised and nothing is skipped.
C17_StopFlag ==
    /\ [](\A i \in Idx :
            (fail_fast /\ pc[i] = "returned" /\ ~result[i].success) => should_stop)
    /\ [](~fail_fast => (~should_stop /\ Skipped = {}))
    /\ [][should_stop => should_stop']_vars

C17_Witness ==
    /\ fail_fast
    /\ should_stop
    /\ \E i \in Idx : pc[i] = "returned" /\ ~result[i].success
    /\ \E j \in Idx : pc[j] = "add"

\* position of a closure in its plan
Rank(p) ==
    CASE p = "queued" -> 0
      [] p = "update" -> 1
      [] p = "collect" -> 2
      [] p = "add" -> 3
      [] p = "justfile" -> 4
      [] p = "push" -> 5
      [] p = "store" -> 6
      [] OTHER -> 7

C19_Accumulator ==
    /\ [](/\ \A k, l \in 1..Len(results) :
               results[k].repo_root = results[l].repo_root => k = l
          /\ \A i \in Idx :
               (pc[i] \in {"store", "returned"}) <=>
                   (\E k \in 1..Len(results) : results[k] = result[i]
                                               /\ results[k].repo_root = repos[i].root)
          /\ (mainpc = "exit" /\ ~fail_fast) => Len(results) = Len(repos))
    /\ [][/\ Len(results') <= Len(results) + 1
          /\ Len(results') >= Len(results)
          /\ \A k \in 1..Len(results) : results'[k] = results[k]]_vars

C19_Witness ==
    /\ mainpc = "exit"
    /\ ~fail_fast
    /\ Len(results) >= 2
    /\ results[1].repo_root > results[2].repo_root
    /\ ~results[1].success

\* C20: a returned RepoResult has success=true exactly when failed_packages is
\* empty and the update did not fail; a worker with failed adds still goes
\* through the justfile step and returns success=false, and success never
\* goes from false back to true within a plan.
C20_SuccessFlag ==
    /\ [](\A i \in Idx :
            pc[i] \in Finished =>
                (result[i].success <=> (result[i].failed_packages = <<>> /\ ~UpdateFailedAt(i))))
    /\ [][\A i \in Idx :
            /\ (pc[i] # "queued" /\ ~result[i].success) => ~result'[i].success
            /\ (pc[i] = "add" /\ pc'[i] # "add") => pc'[i] = AfterAdd
            /\ pc[i] = "justfile" => pc'[i] \in {"justfile", "push"}]_vars

C20_Witness ==
    \E i \in Idx :
        /\ pc[i] = "returned"
        /\ ~result[i].success
        /\ result[i].failed_packages # <<>>
        /\ result[i].updated_packages # <<>>
        /\ fs_writes[i] = 1
        /\ justfile[i] = "template"

\* C11: in Create mode outside dry-run handle_justfile never writes where a
\* justfile exists: the step counts the repository as skipped and leaves the
\* file as it is.  So a second `just --mode create` after a run without a
\* failed write creates nothing, skips every repository and changes no file.
C11_CreateIdempotent ==
    /\ [][(/\ mainpc = "just_loop" /\ mainpc' = "just_loop"
           /\ justfile_mode = "Create" /\ ~dry_run
           /\ just_i <= Len(repos)
           /\ justfile[just_i] # "absent") =>
              /\ justfile' = justfile
              /\ fs_writes' = fs_writes
              /\ skip_count' = skip_count + 1
              /\ success_count' = success_count
              /\ just_errs' = just_errs]_vars
    /\ [][(/\ justfile_mode = "Create" /\ ~dry_run
           /\ summaries # <<>>
           /\ summaries[1].errors = 0) =>
              (justfile' = justfile /\ fs_writes' = fs_writes)]_vars
    /\ []((/\ justfile_mode = "Create" /\ ~dry_run
           /\ Len(summaries) >= 2
           /\ summaries[1].errors = 0) =>
              summaries[2] = [created |-> 0, skipped |-> Len(repos), errors |-> 0])

C11_Witness ==
    /\ justfile_mode = "Create" /\ ~dry_run
    /\ Len(repos) >= 2
    /\ Len(summaries) = 2
    /\ summaries[1].created >= 1
    /\ summaries[1].skipped >= 1
    /\ summaries[1].errors = 0
    /\ summaries[2].skipped = Len(repos)


\* ------------------------------------------------- claims on run and discovery
ProbeFailed == Len(version_calls) >= 2 /\ ~version_calls[2].ok

\* discover_repos has returned Ok(repos)
Discovered ==
    mainpc \in {"cmd_scan", "cmd_apply", "cmd_just"} \/ (mainpc = "exit" /\ exit_code = 0)

\* the ignore set of the run, and the paths it ignores
IgnoreSet ==
    Range(common_ignores) \cup (IF no_default_ignore THEN {} ELSE Range(DEFAULT_IGNORES))

Ignored(path) ==
    \E k \in 1..Len(path) :
        (Len(path[k]) > 0 /\ path[k][1] = ".") \/ path[k] \in IgnoreSet

IsPrefix(p, q) == Len(p) <= Len(q) /\ SubSeq(q, 1, Len(p)) = p

\* the manifest files below the scanned root that are not ignored
Manifests ==
    {p \in DOMAIN fs : /\ p[Len(p)] = ManifestName
                       /\ fs[p].kind = "file"
                       /\ IsPrefix(root, p)
                       /\ ~Ignored(p)}

FoundPaths == {moon_mods[k].path : k \in 1..Len(moon_mods)}

\* the nearest directory, from the manifest's own upwards, that holds `.git`;
\* the manifest's own directory when there is none
RepoRootOf(m) ==
    LET dir == Parent(m)
        git == {k \in 0..Len(dir) : Exists(Append(SubSeq(dir, 1, k), GitName))}
    IN  IF git = {} THEN dir
        ELSE SubSeq(dir, 1, CHOOSE k \in git : \A j \in git : j <= k)

\* where a manifest sits in the returned list
Places(m) ==
    {<<r, k>> \in (1..Len(repos)) \X (1..Len(moon_mods)) :
        k <= Len(repos[r].moon_mods) /\ repos[r].moon_mods[k].path = m}

\* C13: when the availability probe fails the process ends with exit code 1
\* and has done nothing else, whatever the subcommand: no walk, no worker, no
\* `moon update` or `moon add`, no justfile written
C13_ProbeFailureExits ==
    ProbeFailed =>
        /\ mainpc = "exit" /\ exit_code = 1
        /\ Len(version_calls) = 2
        /\ stack = <<>> /\ read_dirs = {} /\ moon_mods = <<>> /\ warnings = <<>>
        /\ repos = <<>> /\ results = <<>>
        /\ pc = <<>> /\ moon_calls = <<>> /\ fs_writes = <<>>

C13_Witness ==
    /\ ProbeFailed
    /\ command = "just"
    /\ moon_bin = "~/.moon/bin/moon"
    /\ mainpc = "exit"

\* C14: discover_repos partitions the manifests it found: each is in exactly
\* one repository, two are together iff their repo roots are equal, a
\* repository's root is the nearest ancestor with `.git` (else the manifest's
\* own directory), and the roots are strictly ascending
C14_Partition ==
    Discovered =>
        /\ \A m \in FoundPaths : Cardinality(Places(m)) = 1
        /\ \A r \in 1..Len(repos) :
            \A k \in 1..Len(repos[r].moon_mods) :
                /\ repos[r].moon_mods[k] \in Range(moon_mods)
                /\ repos[r].root = RepoRootOf(repos[r].moon_mods[k].path)
        /\ \A m, n \in FoundPaths :
            (\E r \in 1..Len(repos) : \E k, j \in 1..Len(repos[r].moon_mods) :
                repos[r].moon_mods[k].path = m /\ repos[r].moon_mods[j].path = n)
            <=> RepoRootOf(m) = RepoRootOf(n)
        /\ \A r \in 1..(Len(repos) - 1) : PathLess(repos[r].root, repos[r + 1].root)

C14_Witness ==
    /\ Discovered
    /\ Len(repos) = 2
    /\ \E r \in 1..2 : Len(repos[r].moon_mods) = 2 /\ Exists(Append(repos[r].root, GitName))
    /\ \E r \in 1..2 : ~Exists(Append(repos[r].root, GitName))

\* C15: no manifest found has an ignored path (a component that starts with
\* '.' or is in the ignore set), also when the default set is off and the
\* caller's list is empty, and the walk descends into no ignored directory
C15_NoIgnoredPath ==
    /\ \A m \in FoundPaths : ~Ignored(m)
    /\ \A d \in read_dirs : ~Ignored(d)
    /\ \A r \in 1..Len(repos) : \A k \in 1..Len(repos[r].moon_mods) :
        ~Ignored(repos[r].moon_mods[k].path)

C15_Witness ==
    /\ Discovered
    /\ no_default_ignore /\ common_ignores = <<>>
    /\ Append(WT, ManifestName) \in FoundPaths
    /\ Exists(Append(WH, ManifestName))
    /\ IsPrefix(root, WH)

\* C16: a manifest that cannot be read or parsed is warned about and left
\* out, the walk goes on, and a scan that returns has found every other
\* manifest that is not ignored, those visited before the bad one and those
\* visited after it
C16_ParseFailureNonFatal ==
    /\ [](Discovered =>
            /\ FoundPaths = {p \in Manifests : fs[p].state = "ok"}
            /\ {warnings[k].path : k \in 1..Len(warnings)}
                   = {p \in Manifests : fs[p].state # "ok"})
    /\ [][warnings' # warnings =>
            /\ mainpc' = "walk" /\ exit_code' = exit_code
            /\ moon_mods' = moon_mods]_vars

C16_Witness ==
    /\ Discovered
    /\ \E k \in 1..Len(warnings) :
        /\ 0 < warnings[k].after
        /\ warnings[k].after < Len(moon_mods)
        /\ fs[warnings[k].path].state = "unreadable"

\* ------------------------------------------------------- claims on the pool
\* C21: when every tool invocation and file write returns and the pool is
\* scheduled fairly, apply terminates: every repository is in the end
\* processed to completion by one closure (one RepoResult) or skipped (none),
\* a closure that waits for the mutex of `results` gets it and pushes, and
\* the report is reached
C21_Terminates ==
    /\ <>[](mainpc = "exit")
    /\ <>[](\A i \in Idx : pc[i] \in {"returned", "skipped"})
    /\ \A i \in 1..MaxRepos :
          (i \in Idx /\ pc[i] = "push") ~> (i \in Idx /\ pc[i] \in {"store", "returned"})
    /\ [](mainpc = "exit" =>
            \A i \in Idx :
                LET pushed == {k \in 1..Len(results) : results[k].repo_root = repos[i].root}
                IN  \/ pc[i] = "returned" /\ PlanComplete(i) /\ Cardinality(pushed) = 1
                    \/ pc[i] = "skipped" /\ pushed = {})

\* a closure waits for the mutex while another one holds it
C21_Witness ==
    \E i, j \in Idx : pc[i] = "locked" /\ pc[j] = "push"

\* ------------------------------------------------ claims on the tool binary
\* C22: the tool binary is resolved at most once per process: after the
\* preflight's resolution and availability probe no `moon version` runs
\* again, and every run call uses the binary resolved then
C22_ResolvedOnce ==
    /\ Len(version_calls) <= 2
    /\ moon_bin = version_calls[2].bin

====
